---- MODULE Spec2Model ----
(***************************************************************************)
(* create-bl-theme (bin/cli.js): the create, validate and publish flows of *)
(* the theme CLI, over an abstract filesystem, git checkout and registry.  *)
(* Strings are sequences of one-character strings, so that the regular     *)
(* expressions and conversions of the code are computed, not assumed.      *)
(***************************************************************************)
EXTENDS Integers, Sequences, FiniteSets, TLC

(* ------------------------------ bounds -------------------------------- *)
\* how many edits the user makes to a theme directory before running a command
MaxEdits == 1
\* how many temporary directories may exist at once, those left behind included
MaxTmpDirs == 1
\* how many diagnostics of each severity the stylesheet compiler reports
MaxDiag == 1

(* --------------------------- characters ------------------------------- *)
Lower == {"a","b","c","d","e","f","g","h","i","j","k","l","m",
          "n","o","p","q","r","s","t","u","v","w","x","y","z"}
Upper == {"A","B","C","D","E","F","G","H","I","J","K","L","M",
          "N","O","P","Q","R","S","T","U","V","W","X","Y","Z"}
Digit == {"0","1","2","3","4","5","6","7","8","9"}
Space == {" "}

DigitVal(c) ==
  CASE c = "0" -> 0 [] c = "1" -> 1 [] c = "2" -> 2 [] c = "3" -> 3
    [] c = "4" -> 4 [] c = "5" -> 5 [] c = "6" -> 6 [] c = "7" -> 7
    [] c = "8" -> 8 [] OTHER -> 9

\* every character of s[from..to] lies in cls, and the range is not empty
AllIn(s, from, to, cls) ==
  /\ from <= to
  /\ \A i \in from..to : s[i] \in cls

\* String.prototype.trim
RECURSIVE TrimLeft(_)
TrimLeft(s) == IF s # <<>> /\ Head(s) \in Space THEN TrimLeft(Tail(s)) ELSE s
RECURSIVE TrimRight(_)
TrimRight(s) ==
  IF s # <<>> /\ s[Len(s)] \in Space THEN TrimRight(SubSeq(s, 1, Len(s) - 1)) ELSE s
Trim(s) == TrimRight(TrimLeft(s))

(* --------------------------- JS values -------------------------------- *)
\* A JSON value as JavaScript sees it after JSON.parse; "undefined" is an absent key.
Undef   == [t |-> "undefined", n |-> 0, s |-> <<>>, l |-> <<>>]
Null    == [t |-> "null",      n |-> 0, s |-> <<>>, l |-> <<>>]
Bool(b) == [t |-> "boolean",   n |-> IF b THEN 1 ELSE 0, s |-> <<>>, l |-> <<>>]
Num(k)  == [t |-> "number",    n |-> k, s |-> <<>>, l |-> <<>>]
Str(x)  == [t |-> "string",    n |-> 0, s |-> x, l |-> <<>>]
Arr(xs) == [t |-> "array",     n |-> 0, s |-> <<>>, l |-> xs]

\* JavaScript truthiness, as used by `if (metadata.x)` and `!metadata.x`
Truthy(v) ==
  CASE v.t = "boolean" -> v.n = 1
    [] v.t = "number"  -> v.n # 0
    [] v.t = "string"  -> v.s # <<>>
    [] v.t = "array"   -> TRUE
    [] OTHER           -> FALSE

IsArray(v) == v.t = "array"

RECURSIVE NatToStr(_)
NatToStr(k) ==
  LET d == CHOOSE c \in Digit : DigitVal(c) = k % 10
  IN  IF k < 10 THEN <<d>> ELSE NatToStr(k \div 10) \o <<d>>

RECURSIVE Join(_)
Join(xs) ==
  IF xs = <<>> THEN <<>>
  ELSE IF Len(xs) = 1 THEN xs[1]
  ELSE xs[1] \o <<",">> \o Join(Tail(xs))

\* the string a RegExp.prototype.test argument is converted to
StringOf(v) ==
  CASE v.t = "string"    -> v.s
    [] v.t = "number"    -> NatToStr(v.n)
    [] v.t = "boolean"   -> IF v.n = 1 THEN <<"t","r","u","e">> ELSE <<"f","a","l","s","e">>
    [] v.t = "array"     -> Join(v.l)
    [] v.t = "null"      -> <<"n","u","l","l">>
    [] OTHER             -> <<"u","n","d","e","f","i","n","e","d">>

(* ------------------------ regular expressions ------------------------- *)
\* /^[a-z0-9-]+$/
\* the same pattern without its anchors
IdRegexTestUnanchored(s) == \E i \in 1..Len(s) : s[i] \in Lower \cup Digit \cup {"-"}

IdRegexTest(s) == AllIn(s, 1, Len(s), Lower \cup Digit \cup {"-"})

\* [\w.]
WordDot == Lower \cup Upper \cup Digit \cup {"_", "."}

\* (-[\w.]+)?(\+[\w.]+)?$ on the rest of a version string
SemverSuffix(r) ==
  \/ r = <<>>
  \/ /\ r[1] = "-"
     /\ \E e \in 2..Len(r) :
          /\ AllIn(r, 2, e, WordDot)
          /\ \/ e = Len(r)
             \/ /\ e < Len(r)
                /\ r[e + 1] = "+"
                /\ AllIn(r, e + 2, Len(r), WordDot)
  \/ /\ r[1] = "+"
     /\ AllIn(r, 2, Len(r), WordDot)

\* /^\d+\.\d+\.\d+(-[\w.]+)?(\+[\w.]+)?$/
SemverRegexTest(s) ==
  \E p1, p2, e \in 1..Len(s) :
    /\ p1 < p2 /\ p2 < e
    /\ s[p1] = "." /\ s[p2] = "."
    /\ AllIn(s, 1, p1 - 1, Digit)
    /\ AllIn(s, p1 + 1, p2 - 1, Digit)
    /\ AllIn(s, p2 + 1, e, Digit)
    /\ SemverSuffix(SubSeq(s, e + 1, Len(s)))


(* ------------------------ the theme directory ------------------------- *)
Fields == {"id", "title", "creators", "minVersion", "hasShaders", "version",
           "images", "tags", "description"}

\* const required = [...] of validate
required == <<"id", "title", "creators", "minVersion", "hasShaders", "version", "images">>

\* metadata.json: no file, text that is not JSON, the JSON text `null`, or an object
\* (obj gives each key's value, Undef for a key the object does not have)
NoFields == [f \in Fields |-> Undef]
MetaAbsent  == [kind |-> "absent",  obj |-> NoFields]
MetaGarbage == [kind |-> "garbage", obj |-> NoFields]
MetaNull    == [kind |-> "null",    obj |-> NoFields]
MetaObject(o) == [kind |-> "object", obj |-> o]

\* a text file: whether it exists, and its content
NoText == [exists |-> FALSE, text |-> <<>>]
Text(x) == [exists |-> TRUE, text |-> x]

\* what image-size makes of a file's bytes: dimensions, or the exception it throws
Dims(w, h)   == [r |-> "dims", w |-> w, h |-> h]
ImgThrows(k) == [r |-> k, w |-> 0, h |-> 0]

preview_png == <<"p","r","e","v","i","e","w",".","p","n","g">>
shot_JPG == <<"s","h","o","t",".","J","P","G">>
notes_txt == <<"n","o","t","e","s",".","t","x","t">>
gitkeep == <<".", "g", "i", "t", "k", "e", "e", "p">>

NoImagesDir == [kind |-> "absent", files |-> {}]
ImagesDir(fileset) == [kind |-> "dir", files |-> fileset]
\* a regular file named `images`
ImagesFile == [kind |-> "file", files |-> {}]

EmptyTree ==
  [meta |-> MetaAbsent, descMd |-> NoText, rics |-> NoText, css |-> NoText,
   images |-> NoImagesDir, shader |-> FALSE, cover |-> FALSE, readme |-> FALSE]

(* ------------------------------ messages ------------------------------ *)
\* one entry of `errors` or `warnings`: the message's kind and the name it carries
Msg(m, f) == [m |-> m, f |-> f, n |-> 0]
M(m) == Msg(m, <<>>)
\* a message that also prints a number (in hundredths)
MsgN(m, f, k) == [m |-> m, f |-> f, n |-> k]

\* how many entries of list xs satisfy the kind m
Count(xs, m) == Cardinality({i \in 1..Len(xs) : xs[i].m = m})
CountMsg(xs, msg) == Cardinality({i \in 1..Len(xs) : xs[i] = msg})

RECURSIVE SeqOfSet(_)
SeqOfSet(S) ==
  IF S = {} THEN <<>>
  ELSE LET x == CHOOSE y \in S : TRUE IN <<x>> \o SeqOfSet(S \ {x})

RECURSIVE Flatten(_)
Flatten(xss) == IF xss = <<>> THEN <<>> ELSE Head(xss) \o Flatten(Tail(xss))


(* ------------------- validate: the metadata.json block ----------------- *)
\* fs.existsSync(path.join(imagesDir, image)); path.join(imagesDir, "") is imagesDir
ExistsInImages(tree, name) ==
  IF name = <<>> THEN tree.images.kind # "absent"
  ELSE /\ tree.images.kind = "dir"
       /\ \E file \in tree.images.files : file.name = name

\* descContent.length === 0 for DESCRIPTION.md
DescMdEmpty(tree) == Len(Trim(tree.descMd.text)) = 0

\* the loop over `required` testing !metadata[field]
RequiredErrorsFalsy(o) ==
  Flatten([i \in 1..Len(required) |->
             IF ~Truthy(o[required[i]])
             THEN <<Msg("missing_field", <<required[i]>>)>> ELSE <<>>])

\* the loop over `required`
RequiredErrors(o) ==
  Flatten([i \in 1..Len(required) |->
             IF o[required[i]] = Undef
             THEN <<Msg("missing_field", <<required[i]>>)>> ELSE <<>>])

VersionErrors(o) ==
  IF Truthy(o["version"]) /\ ~SemverRegexTest(StringOf(o["version"]))
  THEN <<M("bad_version")>> ELSE <<>>

\* the description check asking for a DESCRIPTION.md that is not blank
DescriptionErrorsNonBlank(tree, o) ==
  (IF ~Truthy(o["description"]) /\ ~(tree.descMd.exists /\ ~DescMdEmpty(tree))
   THEN <<M("missing_description")>> ELSE <<>>)
  \o (IF tree.descMd.exists /\ DescMdEmpty(tree)
      THEN <<M("empty_description_md")>> ELSE <<>>)

DescriptionErrors(tree, o) ==
  (IF ~Truthy(o["description"]) /\ ~tree.descMd.exists
   THEN <<M("missing_description")>> ELSE <<>>)
  \o (IF tree.descMd.exists /\ DescMdEmpty(tree)
      THEN <<M("empty_description_md")>> ELSE <<>>)

IdErrors(o) ==
  IF Truthy(o["id"]) /\ ~IdRegexTest(StringOf(o["id"]))
  THEN <<M("bad_id")>> ELSE <<>>

ArrayErrors(o) ==
  (IF Truthy(o["creators"]) /\ ~IsArray(o["creators"])
   THEN <<M("creators_not_array")>> ELSE <<>>)
  \o (IF Truthy(o["images"]) /\ ~IsArray(o["images"])
      THEN <<M("images_not_array")>> ELSE <<>>)

\* the cross-reference made only when images/ is there
CrossRefErrorsIfDir(tree, o) ==
  IF Truthy(o["images"]) /\ IsArray(o["images"]) /\ tree.images.kind # "absent"
  THEN LET imgs == o["images"].l
       IN  Flatten([i \in 1..Len(imgs) |->
                      IF ~ExistsInImages(tree, imgs[i])
                      THEN <<Msg("image_not_found", imgs[i])>> ELSE <<>>])
  ELSE <<>>

CrossRefErrors(tree, o) ==
  IF Truthy(o["images"]) /\ IsArray(o["images"])
  THEN LET imgs == o["images"].l
       IN  Flatten([i \in 1..Len(imgs) |->
                      IF ~ExistsInImages(tree, imgs[i])
                      THEN <<Msg("image_not_found", imgs[i])>> ELSE <<>>])
  ELSE <<>>

\* the tag check also warning on an empty array
TagWarningsEmptyArray(o) ==
  IF ~Truthy(o["tags"]) \/ (IsArray(o["tags"]) /\ o["tags"].l = <<>>)
  THEN <<M("no_tags")>> ELSE <<>>

TagWarnings(o) ==
  IF ~Truthy(o["tags"]) THEN <<M("no_tags")>> ELSE <<>>

\* the metadata block going on to the required fields after a parse that failed
MetadataErrorsAfterFailedParse(tree) ==
  CASE tree.meta.kind = "absent"  -> <<M("metadata_missing")>>
    [] tree.meta.kind = "garbage" ->
         <<Msg("invalid_json", <<"SyntaxError">>)>> \o RequiredErrors(NoFields)
    [] tree.meta.kind = "null"    -> <<Msg("invalid_json", <<"TypeError">>)>>
    [] OTHER ->
         LET o == tree.meta.obj
         IN  RequiredErrors(o) \o VersionErrors(o) \o DescriptionErrors(tree, o)
             \o IdErrors(o) \o ArrayErrors(o) \o CrossRefErrors(tree, o)

\* lines 369-449: what the metadata block appends to errors
MetadataErrors(tree) ==
  CASE tree.meta.kind = "absent"  -> <<M("metadata_missing")>>
    \* JSON.parse throws a SyntaxError
    [] tree.meta.kind = "garbage" -> <<Msg("invalid_json", <<"SyntaxError">>)>>
    \* metadata[field] on null throws a TypeError, caught by the same catch
    [] tree.meta.kind = "null"    -> <<Msg("invalid_json", <<"TypeError">>)>>
    [] OTHER ->
         LET o == tree.meta.obj
         IN  RequiredErrors(o) \o VersionErrors(o) \o DescriptionErrors(tree, o)
             \o IdErrors(o) \o ArrayErrors(o) \o CrossRefErrors(tree, o)

\* ... and to warnings
MetadataWarnings(tree) ==
  IF tree.meta.kind = "object" THEN TagWarnings(tree.meta.obj) ELSE <<>>

(* ----------------------- validate: style block ------------------------ *)
\* what compileWithDetails does with a source: it throws, or returns diagnostics
CompileResults ==
  [threw : {TRUE}, errors : {0}, warnings : {0}]
  \cup {r \in [threw : {FALSE}, errors : 0..MaxDiag, warnings : 0..MaxDiag] :
          r.errors + r.warnings <= MaxDiag}

\* whether the compiler is called at all
CompilerInvoked(tree) == tree.rics.exists /\ Len(Trim(tree.rics.text)) # 0

Repeat(msg, k) == [i \in 1..k |-> msg]

StyleErrors(tree, res) ==
  IF ~tree.rics.exists /\ ~tree.css.exists THEN <<M("style_missing")>>
  ELSE IF tree.rics.exists
  THEN IF Len(Trim(tree.rics.text)) = 0 THEN <<>>
       ELSE IF res.threw THEN <<M("rics_failed")>>
       ELSE Repeat(M("rics_error"), res.errors)
  ELSE <<>>

\* the style warnings when style.css is looked at next to style.rics
StyleWarningsBothFiles(tree, res) ==
  (IF tree.rics.exists
   THEN IF Len(Trim(tree.rics.text)) = 0 THEN <<M("rics_empty")>>
        ELSE IF res.threw THEN <<>>
        ELSE Repeat(M("rics_warning"), res.warnings)
   ELSE <<>>)
  \o (IF tree.css.exists /\ Len(Trim(tree.css.text)) = 0 THEN <<M("css_empty")>> ELSE <<>>)

StyleWarnings(tree, res) ==
  IF ~tree.rics.exists /\ ~tree.css.exists THEN <<>>
  ELSE IF tree.rics.exists
  THEN IF Len(Trim(tree.rics.text)) = 0 THEN <<M("rics_empty")>>
       ELSE IF res.threw THEN <<>>
       ELSE Repeat(M("rics_warning"), res.warnings)
  ELSE IF Len(Trim(tree.css.text)) = 0 THEN <<M("css_empty")>> ELSE <<>>


(* ----------------------- validate: images block ----------------------- *)
RECOMMENDED_WIDTH == 1280
RECOMMENDED_HEIGHT == 720

UpperSeq == <<"A","B","C","D","E","F","G","H","I","J","K","L","M",
              "N","O","P","Q","R","S","T","U","V","W","X","Y","Z">>
LowerSeq == <<"a","b","c","d","e","f","g","h","i","j","k","l","m",
              "n","o","p","q","r","s","t","u","v","w","x","y","z">>
LowerOf(c) == IF c \in Upper THEN LowerSeq[CHOOSE i \in 1..26 : UpperSeq[i] = c] ELSE c
LowerCase(s) == [i \in 1..Len(s) |-> LowerOf(s[i])]

ImageExts == { <<".","p","n","g">>, <<".","j","p","g">>, <<".","j","p","e","g">>,
               <<".","g","i","f">>, <<".","w","e","b","p">> }

\* the extension pattern without the i flag
ImageExtTestCaseSensitive(name) ==
  \E e \in ImageExts :
    /\ Len(name) >= Len(e)
    /\ SubSeq(name, Len(name) - Len(e) + 1, Len(name)) = e

\* /\.(png|jpg|jpeg|gif|webp)$/i
ImageExtTest(name) ==
  \E e \in ImageExts :
    /\ Len(name) >= Len(e)
    /\ LowerCase(SubSeq(name, Len(name) - Len(e) + 1, Len(name))) = e

\* w / h is an IEEE 754 double: 1 + 52 bits of w / h, the rest rounded to nearest,
\* ties to even
MANTISSA_BITS == 52

\* w and h scaled by powers of two until 1 <= w / h < 2
RECURSIVE Normalised(_, _)
Normalised(w, h) ==
  IF w < h THEN Normalised(2 * w, h)
  ELSE IF w >= 2 * h THEN Normalised(w, 2 * h)
  ELSE <<w, h>>

\* long division: the remainder and the last bit after i more bits of the quotient
RECURSIVE MantissaTail(_, _, _, _)
MantissaTail(rem, h, bit, i) ==
  IF i = 0 THEN <<rem, bit>>
  ELSE MantissaTail((2 * rem) % h, h, IF 2 * rem >= h THEN 1 ELSE 0, i - 1)

\* whether the double w / h is at least the quotient of the integers w and h
DoubleNotBelow(w, h) ==
  LET n == Normalised(w, h)
      t == MantissaTail(n[1] - n[2], n[2], 1, MANTISSA_BITS)
  IN  \/ t[1] = 0
      \/ 2 * t[1] > n[2]
      \/ 2 * t[1] = n[2] /\ t[2] = 1

\* toFixed(2) cutting the digits after the second
ToFixed2Truncating(w, h) == (100 * w) \div h

\* (w / h).toFixed(2), in hundredths: the integer nearest to 100 times the double,
\* the larger one of two
ToFixed2(w, h) ==
  LET q == (100 * w) \div h
      r == (100 * w) % h
  IN  IF 2 * r > h THEN q + 1
      ELSE IF 2 * r < h THEN q
      ELSE IF DoubleNotBelow(w, h) THEN q + 1 ELSE q

\* readdirSync(imagesDir).filter(...)
ImageFiles(tree) == {file \in tree.images.files : ImageExtTest(file.name)}

ImageErrors(file) ==
  CASE file.img.r = "dims" ->
         IF file.img.w = 0 \/ file.img.h = 0
         THEN <<Msg("image_unreadable", file.name)>> ELSE <<>>
    [] file.img.r = "unsupported" -> <<Msg("image_corrupt", file.name)>>
    [] file.img.r = "enoent"      -> <<Msg("image_enoent", file.name)>>
    [] OTHER                      -> <<Msg("image_other", file.name)>>

ImageWarnings(file) ==
  IF /\ file.img.r = "dims" /\ file.img.w # 0 /\ file.img.h # 0
     /\ ToFixed2(file.img.w, file.img.h) # ToFixed2(RECOMMENDED_WIDTH, RECOMMENDED_HEIGHT)
  THEN <<MsgN("aspect", file.name, ToFixed2(file.img.w, file.img.h))>>
  ELSE <<>>

\* readdirSync on a path that is not a directory throws, outside any try
ImagesThrows(tree) == tree.images.kind = "file"

ImagesErrors(tree) ==
  IF tree.images.kind = "absent" THEN <<M("images_dir_missing")>>
  ELSE IF ImageFiles(tree) = {} THEN <<M("no_images")>>
  ELSE LET fl == SeqOfSet(ImageFiles(tree))
       IN  Flatten([i \in 1..Len(fl) |-> ImageErrors(fl[i])])

ImagesWarnings(tree) ==
  IF tree.images.kind = "absent" THEN <<>>
  ELSE LET fl == SeqOfSet(ImageFiles(tree))
       IN  Flatten([i \in 1..Len(fl) |-> ImageWarnings(fl[i])])

(* ------------------ validate: shader and cover blocks ----------------- *)
\* the shader check made whatever hasShaders says
ShaderErrorsUnconditional(tree) ==
  IF tree.meta.kind = "object" /\ ~tree.shader
  THEN <<M("shader_missing")>> ELSE <<>>

\* both blocks parse metadata.json again and swallow what the parse or access throws
ShaderErrors(tree) ==
  IF /\ tree.meta.kind = "object"
     /\ Truthy(tree.meta.obj["hasShaders"])
     /\ ~tree.shader
  THEN <<M("shader_missing")>> ELSE <<>>

\* the test taking any truthy `images`, an empty array too
HasImagesArrayTruthy(o) == Truthy(o["images"])

\* metadata.images && metadata.images.length > 0
HasImagesArray(o) ==
  /\ Truthy(o["images"])
  /\ \/ o["images"].t = "array" /\ Len(o["images"].l) > 0
     \/ o["images"].t = "string" /\ Len(o["images"].s) > 0

CoverWarnings(tree) ==
  IF /\ tree.meta.kind = "object"
     /\ ~tree.cover
     /\ ~HasImagesArray(tree.meta.obj)
  THEN <<M("no_cover")>> ELSE <<>>



(* ----------------------------- sample texts --------------------------- *)
MY_THEME == <<"m","y","-","t","h","e","m","e">>
BAD_ID == <<"M","y"," ","T","h","e","m","e">>
A_TITLE == <<"M","y"," ","T","h","e","m","e">>
A_DESC == <<"A"," ","t","h","e","m","e">>
A_USER == <<"u","s","e","r">>
DARK == <<"d","a","r","k">>
NEON == <<"n","e","o","n">>
MIN_VERSION == <<"2",".","0",".","5",".","6">>
V_1_0_0 == <<"1",".","0",".","0">>

(* ------------------------------- create ------------------------------- *)
\* the `validate` callbacks of the prompts: an answer is accepted when they return true
IdAnswerOk(x) == IdRegexTest(x)
NonEmptyAnswerOk(x) == Len(x) > 0

IdCandidates == { MY_THEME, BAD_ID }
DescriptionCandidates == { <<>>, A_DESC }
TagChoices == { <<>>, <<DARK, NEON>> }

\* every combination of answers the prompts accept
Answers ==
  [id : {x \in IdCandidates : IdAnswerOk(x)},
   title : {x \in { <<>>, A_TITLE } : NonEmptyAnswerOk(x)},
   description : DescriptionCandidates,
   useDescriptionFile : BOOLEAN,
   creator : {x \in { <<>>, A_USER } : NonEmptyAnswerOk(x)},
   tags : TagChoices,
   hasShaders : BOOLEAN]

NoAnswers ==
  [id |-> <<>>, title |-> <<>>, description |-> <<>>, useDescriptionFile |-> FALSE,
   creator |-> <<>>, tags |-> <<>>, hasShaders |-> FALSE]

\* lines 176-190: the metadata object create builds
\* the record with description written whatever was answered
CreateMetadataWithDescription(r) ==
  [f \in Fields |->
     CASE f = "id"          -> Str(r.id)
       [] f = "title"       -> Str(r.title)
       [] f = "creators"    -> Arr(<<r.creator>>)
       [] f = "minVersion"  -> Str(MIN_VERSION)
       [] f = "hasShaders"  -> Bool(r.hasShaders)
       [] f = "version"     -> Str(V_1_0_0)
       [] f = "tags"        -> Arr(r.tags)
       [] f = "images"      -> Arr(<<preview_png>>)
       [] OTHER             -> Str(r.description)]

CreateMetadata(r) ==
  [f \in Fields |->
     CASE f = "id"          -> Str(r.id)
       [] f = "title"       -> Str(r.title)
       [] f = "creators"    -> Arr(<<r.creator>>)
       [] f = "minVersion"  -> Str(MIN_VERSION)
       [] f = "hasShaders"  -> Bool(r.hasShaders)
       [] f = "version"     -> Str(V_1_0_0)
       [] f = "tags"        -> Arr(r.tags)
       [] f = "images"      -> Arr(<<preview_png>>)
       [] OTHER             -> IF r.useDescriptionFile THEN Undef ELSE Str(r.description)]

\* JSON.stringify followed by JSON.parse: a key whose value is undefined is dropped,
\* strings, booleans and arrays of strings come back as they were
JSONRoundTrip(o) == MetaObject(o)

\* the text of templates/style.rics and of the DESCRIPTION.md boilerplate
RicsTemplate == <<"/", "*", " ", "*", "/">>
DescriptionTemplate == <<"<", "!", "-", "-">>

\* lines 171-278: everything create writes
Scaffold(r) ==
  [meta   |-> JSONRoundTrip(CreateMetadata(r)),
   descMd |-> IF r.useDescriptionFile THEN Text(DescriptionTemplate) ELSE NoText,
   rics   |-> Text(RicsTemplate),
   css    |-> NoText,
   images |-> ImagesDir({[name |-> gitkeep, img |-> ImgThrows("unsupported")]}),
   shader |-> r.hasShaders,
   cover  |-> FALSE,
   readme |-> TRUE]


(* ------------------------------- publish ------------------------------ *)
GITHUB_COM == <<"g","i","t","h","u","b",".","c","o","m">>
DOT_GIT == <<".","g","i","t">>

EndsWith(s, suffix) ==
  /\ Len(s) >= Len(suffix)
  /\ SubSeq(s, Len(s) - Len(suffix) + 1, Len(s)) = suffix

\* where /github\.com[:/](.+?)(?:\.git)?$/ can match: github.com, then : or /, then
\* at least one more character
RemoteMatchStartsSlashOnly(s) ==
  {i \in 1..Len(s) :
     /\ i + 11 <= Len(s)
     /\ SubSeq(s, i, i + 9) = GITHUB_COM
     /\ s[i + 10] = "/"}

RemoteMatchStarts(s) ==
  {i \in 1..Len(s) :
     /\ i + 11 <= Len(s)
     /\ SubSeq(s, i, i + 9) = GITHUB_COM
     /\ s[i + 10] \in {":", "/"}}

RemoteMatches(s) == RemoteMatchStarts(s) # {}

\* group 1 of the leftmost match: the lazy (.+?) stops before a final .git when at
\* least one character is left for it
RemoteGroup1(s) ==
  LET i == CHOOSE j \in RemoteMatchStarts(s) : \A k \in RemoteMatchStarts(s) : j <= k
      rest == SubSeq(s, i + 11, Len(s))
  IN  IF EndsWith(rest, DOT_GIT) /\ Len(rest) > Len(DOT_GIT)
      THEN SubSeq(rest, 1, Len(rest) - Len(DOT_GIT))
      ELSE rest

\* .replace(/\.git$/, "")
StripDotGit(s) ==
  IF EndsWith(s, DOT_GIT) THEN SubSeq(s, 1, Len(s) - Len(DOT_GIT)) ELSE s

\* const repo = repoMatch[1].replace(/\.git$/, "")
ParseRepo(remote) == StripDotGit(RemoteGroup1(remote))

\* String.prototype.split(".")
RECURSIVE Split(_)
Split(s) ==
  IF \E i \in 1..Len(s) : s[i] = "."
  THEN LET i == CHOOSE j \in 1..Len(s) : s[j] = "." /\ \A k \in 1..(j - 1) : s[k] # "."
       IN  <<SubSeq(s, 1, i - 1)>> \o Split(SubSeq(s, i + 1, Len(s)))
  ELSE <<s>>

RECURSIVE DigitsValue(_)
DigitsValue(s) ==
  IF s = <<>> THEN 0 ELSE 10 * DigitsValue(SubSeq(s, 1, Len(s) - 1)) + DigitVal(s[Len(s)])

NaN == [nan |-> TRUE, v |-> 0]
\* Number(string): the empty string is 0, a run of digits its value, an optional sign
\* before it; anything else in a version string is NaN
Number(s) ==
  IF s = <<>> THEN [nan |-> FALSE, v |-> 0]
  ELSE IF AllIn(s, 1, Len(s), Digit) THEN [nan |-> FALSE, v |-> DigitsValue(s)]
  ELSE IF s[1] = "+" /\ AllIn(s, 2, Len(s), Digit)
       THEN [nan |-> FALSE, v |-> DigitsValue(Tail(s))]
  ELSE IF s[1] = "-" /\ AllIn(s, 2, Len(s), Digit)
       THEN [nan |-> FALSE, v |-> 0 - DigitsValue(Tail(s))]
  ELSE NaN

\* version.split(".").map(Number); an index past the end reads undefined, which
\* compares like NaN
VersionParts(s) == LET ps == Split(s) IN [i \in 1..Len(ps) |-> Number(ps[i])]
PartAt(ps, i) == IF i <= Len(ps) THEN ps[i] ELSE NaN

JSGreater(a, b) == ~a.nan /\ ~b.nan /\ a.v > b.v
JSLess(a, b) == ~a.nan /\ ~b.nan /\ a.v < b.v

\* the loop of lines 721-728, from index i (1-based)
RECURSIVE IsGreaterFrom(_, _, _)
IsGreaterFrom(lp, rp, i) ==
  IF i > 3 THEN FALSE
  ELSE IF JSGreater(PartAt(lp, i), PartAt(rp, i)) THEN TRUE
  ELSE IF JSLess(PartAt(lp, i), PartAt(rp, i)) THEN FALSE
  ELSE IsGreaterFrom(lp, rp, i + 1)

IsGreater(local, locked) == IsGreaterFrom(VersionParts(local), VersionParts(locked), 1)

\* lines 711-739: the message printed for a lock entry; metadata.version.split throws a
\* TypeError when version is not a string
VersionOutcome(version, locked) ==
  IF version.t = "string" /\ version.s = locked THEN "matches"
  ELSE IF version.t # "string" THEN "crash"
  ELSE IF IsGreater(version.s, locked) THEN "ready"
  ELSE "not_greater"

\* index.themes?.some((t) => t.repo === repo) ?? false, false when the fetch or the
\* parse throws
\* the lookup comparing the slugs without regard to case
IsRegisteredIgnoreCase(index, repo) ==
  index.ok /\ \E e \in index.repos : LowerCase(e) = LowerCase(repo)

IsRegistered(index, repo) == index.ok /\ repo \in index.repos

\* lock.themes?.find((t) => t.repo === repo) ?? null
LockFound(lock, repo) == lock.ok /\ \E e \in lock.entries : e.repo = repo
LockEntry(lock, repo) == CHOOSE e \in lock.entries : e.repo = repo


(* ---------------------------- validate input -------------------------- *)
StartsWith(s, prefix) ==
  /\ Len(s) >= Len(prefix)
  /\ SubSeq(s, 1, Len(prefix)) = prefix

Drop(s, k) == SubSeq(s, k + 1, Len(s))
NoSlash(s) == \A i \in 1..Len(s) : s[i] # "/"

HTTPS == <<"h","t","t","p","s",":","/","/">>
HTTP == <<"h","t","t","p",":","/","/">>
WWW == <<"w","w","w",".">>
GITHUB_COM_SLASH == <<"g","i","t","h","u","b",".","c","o","m","/">>
SLASH_DOT_GIT == <<"/",".","g","i","t">>

\* ([^\/]+)(?:\/)?(?:\.git)?$ : a name without slashes (it may itself end in .git),
\* then nothing, a slash, or a slash and .git
RepoTail(y) ==
  \/ y # <<>> /\ NoSlash(y)
  \/ EndsWith(y, <<"/">>) /\ Len(y) > 1 /\ NoSlash(SubSeq(y, 1, Len(y) - 1))
  \/ /\ EndsWith(y, SLASH_DOT_GIT) /\ Len(y) > Len(SLASH_DOT_GIT)
     /\ NoSlash(SubSeq(y, 1, Len(y) - Len(SLASH_DOT_GIT)))

\* GITHUB_URL_PATTERN =
\*   /^(?:https?:\/\/)?(?:www\.)?github\.com\/([^\/]+)\/([^\/]+)(?:\/)?(?:\.git)?$/
GithubUrlTest(s) ==
  LET a == IF StartsWith(s, HTTPS) THEN Drop(s, Len(HTTPS))
           ELSE IF StartsWith(s, HTTP) THEN Drop(s, Len(HTTP)) ELSE s
      b == IF StartsWith(a, WWW) THEN Drop(a, Len(WWW)) ELSE a
  IN  /\ StartsWith(b, GITHUB_COM_SLASH)
      /\ LET r == Drop(b, Len(GITHUB_COM_SLASH))
         IN  \E i \in 2..Len(r) :
               /\ r[i] = "/"
               /\ NoSlash(SubSeq(r, 1, i - 1))
               /\ RepoTail(Drop(r, i))

\* the directory names and URLs the commands are given
LOCAL_DIR == <<"m","y","-","t","h","e","m","e">>
OTHER_DIR == <<"n","o","p","e">>
\* args[0] of `create-bl-theme bump patch`
BUMP == <<"b","u","m","p">>
REPO_URL == <<"h","t","t","p","s",":","/","/","g","i","t","h","u","b",".","c","o","m","/","o","/","r">>
REPO_URL_SHORT == <<"g","i","t","h","u","b",".","c","o","m","/","o","/","r",".","g","i","t">>
GITLAB_URL == <<"h","t","t","p","s",":","/","/","g","i","t","l","a","b",".","c","o","m","/","o","/","r">>
ValidateArgs == { LOCAL_DIR, OTHER_DIR, REPO_URL, GITLAB_URL }

(* ----------------------- the git checkout, the registry --------------- *)
REMOTE_HTTPS == <<"h","t","t","p","s",":","/","/","g","i","t","h","u","b",".","c","o","m","/","o","/","r">>
REMOTE_HTTPS_GIT == <<"h","t","t","p","s",":","/","/","g","i","t","h","u","b",".","c","o","m","/","o","/","r",".","g","i","t">>
REMOTE_SSH == <<"g","i","t","@","g","i","t","h","u","b",".","c","o","m",":","o","/","r">>
REMOTE_SSH_GIT == <<"g","i","t","@","g","i","t","h","u","b",".","c","o","m",":","o","/","r",".","g","i","t">>
REMOTE_GITLAB == <<"h","t","t","p","s",":","/","/","g","i","t","l","a","b",".","c","o","m","/","o","/","r",".","g","i","t">>
REMOTE_BARE == <<"h","t","t","p","s",":","/","/","g","i","t","h","u","b",".","c","o","m","/">>
\* what getGitRemote returns: the trimmed URL of origin, or null (here <<>>) when git fails
NoRemote == <<>>

SLUG == <<"o","/","r">>
SLUG_UPPER == <<"O","/","r">>
SLUG_DOTTED == <<"m","y","-","o","r","g","/","b",".","g","i","t","s">>
Slugs == { SLUG, SLUG_DOTTED }

\* the four ways git writes the URL of a GitHub repository
RemoteForm(k, slug) ==
  CASE k = 1 -> HTTPS \o GITHUB_COM \o <<"/">> \o slug
    [] k = 2 -> HTTPS \o GITHUB_COM \o <<"/">> \o slug \o DOT_GIT
    [] k = 3 -> <<"g","i","t","@">> \o GITHUB_COM \o <<":">> \o slug
    [] OTHER -> <<"g","i","t","@">> \o GITHUB_COM \o <<":">> \o slug \o DOT_GIT

Remotes == { NoRemote, REMOTE_HTTPS, REMOTE_HTTPS_GIT, REMOTE_SSH, REMOTE_SSH_GIT,
             REMOTE_GITLAB, REMOTE_BARE }
           \cup { RemoteForm(k, slug) : k \in 1..4, slug \in Slugs }
\* index.json as fetched: the fetch or the parse failed, or the repos it lists
IndexResults ==
  { [ok |-> FALSE, repos |-> {}], [ok |-> TRUE, repos |-> {}],
    [ok |-> TRUE, repos |-> {SLUG}], [ok |-> TRUE, repos |-> {SLUG_UPPER}] }

V_1_1_9 == <<"1",".","1",".","9">>
V_1_2_0 == <<"1",".","2",".","0">>
V_1_9_0 == <<"1",".","9",".","0">>
V_1_10_0 == <<"1",".","1","0",".","0">>
V_1_0_1_BETA == <<"1",".","0",".","1","-","b","e","t","a">>
V_SHORT == <<"1",".","0">>
LockVersions == { V_1_0_0, V_1_1_9, V_1_2_0, V_1_9_0 }
LockEntryFor(repo, v) == [repo |-> repo, version |-> v]
\* index.lock.json as fetched
LockResults ==
  { [ok |-> FALSE, entries |-> {}], [ok |-> TRUE, entries |-> {}] }
  \cup { [ok |-> TRUE, entries |-> {LockEntryFor(SLUG, v)}] : v \in LockVersions }
  \cup { [ok |-> TRUE, entries |-> {LockEntryFor(SLUG_UPPER, V_1_0_0)}] }


(* ------------------------- edits by the user -------------------------- *)
\* values a user may give a metadata.json key by hand
FieldPalette(f) ==
  CASE f = "id" -> { Undef, Null, Str(<<>>), Str(BAD_ID), Str(<<"a", "_", "1">>),
                     Str(<<"a", "-", "1">>), Num(7) }
    [] f = "title" -> { Undef, Str(<<>>), Num(0) }
    [] f = "creators" -> { Undef, Null, Str(A_USER), Arr(<<>>) }
    [] f = "minVersion" -> { Undef, Null }
    [] f = "hasShaders" -> { Undef, Bool(TRUE), Bool(FALSE), Num(0), Num(1) }
    [] f = "version" -> { Undef, Str(<<>>), Num(1), Str(V_SHORT), Str(V_1_1_9),
                          Str(V_1_2_0), Str(V_1_10_0), Str(V_1_0_1_BETA) }
    [] f = "images" -> { Undef, Null, Num(1), Arr(<<>>), Str(preview_png),
                         Arr(<<shot_JPG>>), Arr(<<preview_png, shot_JPG>>) }
    [] f = "tags" -> { Undef, Null, Arr(<<>>), Arr(<<DARK>>) }
    [] OTHER -> { Undef, Null, Str(<<>>), Str(A_DESC) }

TextPalette == { NoText, Text(<<>>), Text(<<" ">>), Text(RicsTemplate) }

SampleFiles ==
  { [name |-> preview_png, img |-> Dims(1280, 720)],
    [name |-> preview_png, img |-> Dims(1280, 800)],
    [name |-> preview_png, img |-> Dims(1278, 720)],
    [name |-> preview_png, img |-> Dims(800, 480)],
    [name |-> preview_png, img |-> Dims(0, 0)],
    [name |-> preview_png, img |-> ImgThrows("unsupported")],
    [name |-> preview_png, img |-> ImgThrows("enoent")],
    [name |-> preview_png, img |-> ImgThrows("other")],
    [name |-> shot_JPG, img |-> Dims(1920, 1080)],
    [name |-> notes_txt, img |-> ImgThrows("unsupported")] }

\* writing a file replaces the file of that name
PutFile(files, file) == {g \in files : g.name # file.name} \cup {file}

\* the trees one edit away from tree
EditedTrees(tree) ==
  { [tree EXCEPT !.meta = m] : m \in {MetaAbsent, MetaGarbage, MetaNull, MetaObject(NoFields)} }
  \cup (IF tree.meta.kind = "object"
        THEN UNION { { [tree EXCEPT !.meta.obj[f] = v] : v \in FieldPalette(f) } : f \in Fields }
        ELSE {})
  \cup { [tree EXCEPT !.descMd = x] : x \in TextPalette }
  \cup { [tree EXCEPT !.rics = x] : x \in TextPalette }
  \cup { [tree EXCEPT !.css = x] : x \in TextPalette }
  \cup { [tree EXCEPT !.images = x] : x \in {NoImagesDir, ImagesFile, ImagesDir({})} }
  \cup (IF tree.images.kind = "dir"
        THEN { [tree EXCEPT !.images.files = PutFile(@, file)] : file \in SampleFiles }
             \cup { [tree EXCEPT !.images.files = @ \ {file}] : file \in tree.images.files }
        ELSE {})
  \cup { [tree EXCEPT !.shader = ~@], [tree EXCEPT !.cover = ~@] }

\* a theme as it stands once the screenshot create asks for has been added
DefaultAnswers ==
  [id |-> MY_THEME, title |-> A_TITLE, description |-> A_DESC, useDescriptionFile |-> FALSE,
   creator |-> A_USER, tags |-> <<DARK>>, hasShaders |-> FALSE]
CompleteTheme ==
  [Scaffold(DefaultAnswers) EXCEPT
     !.images.files = PutFile(@, [name |-> preview_png, img |-> Dims(1280, 720)])]

\* answers of earlier runs of create: the defaults, nothing but the required ones,
\* and every option taken with no description and no tag
StartingAnswers ==
  { DefaultAnswers,
    [DefaultAnswers EXCEPT !.description = <<>>, !.tags = <<>>],
    [DefaultAnswers EXCEPT !.description = <<>>, !.useDescriptionFile = TRUE,
                           !.tags = <<>>, !.hasShaders = TRUE] }

\* the theme directories a run starts from: the complete theme, and what create
\* generated for these answers
StartingThemes == {CompleteTheme} \cup {Scaffold(r) : r \in StartingAnswers}

(* ------------------------------- state -------------------------------- *)
VARIABLES
  fs,        \* the working directory: whether LOCAL_DIR exists, its tree, the others made
  tmpDirs,   \* the temporary directories that exist under os.tmpdir()
  tmpTree,   \* the tree cloned into the running validate's temporary directory
  pc,        \* where the running command stands
  cmd,       \* the running command
  arg,       \* its argument
  tempDir,   \* validate's tempDir (0 is null)
  errors,    \* validate's errors
  warnings,  \* validate's warnings
  exitCode,  \* the exit code of the process once it has exited, else NotExited
  outcome,   \* the message branch the command ended in
  answers,   \* the answers of the last create
  pub,       \* publish: what git and the registry answered, and the slug
  edits,     \* edits made so far
  rival      \* a second run of create on the same directory: its position and answers

vars == <<fs, tmpDirs, tmpTree, pc, cmd, arg, tempDir, errors, warnings,
          exitCode, outcome, answers, pub, edits, rival>>

NotExited == -1

\* no second run of create
NoRival == [pc |-> "none", answers |-> NoAnswers, outcome |-> ""]

NoPub ==
  [isRepo |-> "unasked", remoteAsked |-> FALSE, remote |-> NoRemote, repo |-> <<>>,
   indexFetched |-> FALSE, index |-> [ok |-> FALSE, repos |-> {}],
   lockFetched |-> FALSE, lock |-> [ok |-> FALSE, entries |-> {}]]

Init ==
  /\ fs \in { [exists |-> FALSE, tree |-> EmptyTree, others |-> {}] }
              \cup { [exists |-> TRUE, tree |-> t, others |-> {}] : t \in StartingThemes }
  /\ tmpDirs = {}
  /\ tmpTree = EmptyTree
  /\ pc = "idle"
  /\ cmd = "none"
  /\ arg = <<>>
  /\ tempDir = 0
  /\ errors = <<>>
  /\ warnings = <<>>
  /\ exitCode = NotExited
  /\ outcome = ""
  /\ answers = NoAnswers
  /\ pub = NoPub
  /\ edits = 0
  /\ rival = NoRival

\* process.exit(code), or main returning (code 0)
Exit(code, how) ==
  /\ pc' = "exited"
  /\ exitCode' = code
  /\ outcome' = how

\* the user edits a file of the theme directory between two commands
UserEdit ==
  /\ pc = "idle"
  /\ fs.exists
  /\ edits < MaxEdits
  /\ \E t \in EditedTrees(fs.tree) :
       /\ t # fs.tree
       /\ fs' = [fs EXCEPT !.tree = t]
  /\ edits' = edits + 1
  /\ UNCHANGED <<tmpDirs, tmpTree, pc, cmd, arg, tempDir, errors, warnings,
                 exitCode, outcome, answers, pub, rival>>

\* main, lines 34-37: `validate [dir|url]`
StartValidate ==
  /\ pc = "idle"
  /\ cmd' = "validate"
  /\ pc' = "v_resolve"
  /\ arg' \in ValidateArgs
  /\ GithubUrlTest(arg') => Cardinality(tmpDirs) < MaxTmpDirs
  /\ UNCHANGED <<fs, tmpDirs, tmpTree, tempDir, errors, warnings,
                 exitCode, outcome, answers, pub, edits, rival>>

\* main, lines 39-42: `publish [dir]`
StartPublish ==
  /\ pc = "idle"
  /\ cmd' = "publish"
  /\ pc' = "p_exists"
  /\ arg' \in {LOCAL_DIR, OTHER_DIR}
  /\ UNCHANGED <<fs, tmpDirs, tmpTree, tempDir, errors, warnings,
                 exitCode, outcome, answers, pub, edits, rival>>

\* main, line 49: anything else is the name of the directory to create
StartCreate ==
  /\ pc = "idle"
  /\ cmd' = "create"
  /\ pc' = "c_prompt"
  /\ arg' \in {LOCAL_DIR, BUMP}
  /\ UNCHANGED <<fs, tmpDirs, tmpTree, tempDir, errors, warnings,
                 exitCode, outcome, answers, pub, edits, rival>>

\* the process is gone, a second one too, and the shell is back
Return ==
  /\ pc = "exited"
  /\ rival.pc \in {"none", "exited"}
  /\ rival' = NoRival
  /\ pc' = "idle"
  /\ cmd' = "none"
  /\ arg' = <<>>
  /\ tempDir' = 0
  /\ tmpTree' = EmptyTree
  /\ errors' = <<>>
  /\ warnings' = <<>>
  /\ exitCode' = NotExited
  /\ outcome' = ""
  /\ answers' = NoAnswers
  /\ pub' = NoPub
  /\ UNCHANGED <<fs, tmpDirs, edits>>


(* --------------------------- validate steps --------------------------- *)
\* fs.existsSync(path.resolve(process.cwd(), dir)) for a directory argument
PathExists(dir) == (dir = LOCAL_DIR /\ fs.exists) \/ dir \in fs.others

\* the tree validate reads: the clone, or the directory named
TargetTree == IF tempDir # 0 THEN tmpTree ELSE fs.tree

\* what a clone of the repository brings: the theme as pushed
RemoteRepos == IF fs.exists THEN {fs.tree} ELSE {CompleteTheme}

\* fs.mkdtempSync: a directory name that does not exist yet
FreshTmpDir == CHOOSE d \in 1..MaxTmpDirs : d \notin tmpDirs /\ \A e \in 1..(d - 1) : e \in tmpDirs

\* lines 323-355: a GitHub URL is cloned into a fresh temporary directory
VResolve ==
  /\ pc = "v_resolve"
  /\ IF GithubUrlTest(arg)
     THEN /\ tmpDirs' = tmpDirs \cup {FreshTmpDir}
          /\ tempDir' = FreshTmpDir
          /\ \/ \* git clone fails: the catch prints and exits
                /\ Exit(1, "clone_failed")
                /\ UNCHANGED tmpTree
             \/ \E t \in RemoteRepos :
                  /\ tmpTree' = t
                  /\ pc' = "v_exists"
                  /\ UNCHANGED <<exitCode, outcome>>
     ELSE /\ pc' = "v_exists"
          /\ UNCHANGED <<tmpDirs, tempDir, tmpTree, exitCode, outcome, rival>>
  /\ UNCHANGED <<fs, cmd, arg, errors, warnings, answers, pub, edits, rival>>

\* the existence check that lets the checklist run on a missing directory
VExistsContinues ==
  /\ pc = "v_exists"
  /\ pc' = "v_metadata"
  /\ UNCHANGED <<fs, tmpDirs, tmpTree, cmd, arg, tempDir, errors, warnings,
                 exitCode, outcome, answers, pub, edits, rival>>

\* lines 359-363
VExists ==
  /\ pc = "v_exists"
  /\ IF tempDir # 0 \/ PathExists(arg)
     THEN pc' = "v_metadata" /\ UNCHANGED <<exitCode, outcome>>
     ELSE Exit(1, "no_dir")
  /\ UNCHANGED <<fs, tmpDirs, tmpTree, cmd, arg, tempDir, errors, warnings,
                 answers, pub, edits, rival>>

\* lines 365-449
VMetadata ==
  /\ pc = "v_metadata"
  /\ errors' = errors \o MetadataErrors(TargetTree)
  /\ warnings' = warnings \o MetadataWarnings(TargetTree)
  /\ pc' = "v_style"
  /\ UNCHANGED <<fs, tmpDirs, tmpTree, cmd, arg, tempDir, exitCode, outcome,
                 answers, pub, edits, rival>>

\* lines 451-489; the compiler's verdict on the source is an input
VStyle ==
  /\ pc = "v_style"
  /\ \E res \in CompileResults :
       /\ CompilerInvoked(TargetTree) \/ res = [threw |-> FALSE, errors |-> 0, warnings |-> 0]
       /\ errors' = errors \o StyleErrors(TargetTree, res)
       /\ warnings' = warnings \o StyleWarnings(TargetTree, res)
  /\ pc' = "v_images"
  /\ UNCHANGED <<fs, tmpDirs, tmpTree, cmd, arg, tempDir, exitCode, outcome,
                 answers, pub, edits, rival>>

\* lines 491-541; an exception of readdirSync reaches main().catch, which exits 1
VImages ==
  /\ pc = "v_images"
  /\ IF ImagesThrows(TargetTree)
     THEN /\ Exit(1, "crash")
          /\ UNCHANGED <<errors, warnings>>
     ELSE /\ errors' = errors \o ImagesErrors(TargetTree)
          /\ warnings' = warnings \o ImagesWarnings(TargetTree)
          /\ pc' = "v_shader"
          /\ UNCHANGED <<exitCode, outcome>>
  /\ UNCHANGED <<fs, tmpDirs, tmpTree, cmd, arg, tempDir, answers, pub, edits, rival>>

\* lines 543-556
VShader ==
  /\ pc = "v_shader"
  /\ errors' = errors \o ShaderErrors(TargetTree)
  /\ pc' = "v_cover"
  /\ UNCHANGED <<fs, tmpDirs, tmpTree, cmd, arg, tempDir, warnings, exitCode,
                 outcome, answers, pub, edits, rival>>

\* lines 558-571
VCover ==
  /\ pc = "v_cover"
  /\ warnings' = warnings \o CoverWarnings(TargetTree)
  /\ pc' = "v_report"
  /\ UNCHANGED <<fs, tmpDirs, tmpTree, cmd, arg, tempDir, errors, exitCode,
                 outcome, answers, pub, edits, rival>>

\* the exit code of lines 602-604
\* the exit code counting warnings as well
ReportCodeCountsWarnings(errs) == IF Len(errs) > 0 \/ Len(warnings) > 0 THEN 1 ELSE 0

ReportCode(errs) == IF Len(errs) > 0 THEN 1 ELSE 0

\* lines 573-604: print, remove the temporary directory (a failure of rmSync is
\* swallowed and leaves it), exit
VReport ==
  /\ pc = "v_report"
  /\ IF tempDir # 0
     THEN \/ tmpDirs' = tmpDirs \ {tempDir} /\ tmpTree' = EmptyTree
          \/ UNCHANGED <<tmpDirs, tmpTree>>
     ELSE UNCHANGED <<tmpDirs, tmpTree>>
  /\ Exit(ReportCode(errors), "reported")
  /\ UNCHANGED <<fs, cmd, arg, tempDir, errors, warnings, answers, pub, edits, rival>>

Validate == VResolve \/ VExists \/ VMetadata \/ VStyle \/ VImages \/ VShader \/ VCover \/ VReport

(* ---------------------------- create steps ---------------------------- *)
\* lines 80-158: the prompts; cancelling one exits 1
CPrompt ==
  /\ pc = "c_prompt"
  /\ \/ \E r \in Answers :
          /\ answers' = r
          /\ pc' = "c_check"
          /\ UNCHANGED <<exitCode, outcome>>
     \/ /\ Exit(1, "cancelled")
        /\ UNCHANGED answers
  /\ UNCHANGED <<fs, tmpDirs, tmpTree, cmd, arg, tempDir, errors, warnings,
                 pub, edits, rival>>

\* create going on to write without looking
CCheckSkipped ==
  /\ pc = "c_check"
  /\ pc' = "c_write"
  /\ UNCHANGED <<fs, tmpDirs, tmpTree, cmd, arg, tempDir, errors, warnings,
                 exitCode, outcome, answers, pub, edits, rival>>

\* lines 160-166
CCheck ==
  /\ pc = "c_check"
  /\ IF PathExists(arg)
     THEN Exit(1, "dir_exists")
     ELSE pc' = "c_write" /\ UNCHANGED <<exitCode, outcome>>
  /\ UNCHANGED <<fs, tmpDirs, tmpTree, cmd, arg, tempDir, errors, warnings,
                 answers, pub, edits, rival>>

\* lines 171-278 on a directory as it stands: mkdirSync with recursive: true takes
\* a directory that is there, writeFileSync replaces a file, and the files this run
\* does not write (DESCRIPTION.md, shader.json) stay as they are
WriteOver(tree, new) ==
  [new EXCEPT
     !.descMd = IF new.descMd.exists THEN new.descMd ELSE tree.descMd,
     !.shader = new.shader \/ tree.shader,
     !.css = tree.css,
     !.cover = tree.cover,
     !.images = IF tree.images.kind = "dir"
                THEN ImagesDir({g \in tree.images.files :
                                  \A file \in new.images.files : g.name # file.name}
                               \cup new.images.files)
                ELSE new.images]

\* the write of a run that looks at the directory once more
CWriteRechecks ==
  /\ pc = "c_write"
  /\ IF PathExists(arg)
     THEN /\ Exit(1, "dir_exists")
          /\ UNCHANGED fs
     ELSE /\ IF arg = LOCAL_DIR
             THEN fs' = [fs EXCEPT !.exists = TRUE, !.tree = WriteOver(fs.tree, Scaffold(answers))]
             ELSE fs' = [fs EXCEPT !.others = @ \cup {arg}]
          /\ Exit(0, "created")
  /\ UNCHANGED <<tmpDirs, tmpTree, cmd, arg, tempDir, errors, warnings,
                 answers, pub, edits, rival>>

\* lines 171-315: mkdirSync, the writes, the closing messages; main returns
CWrite ==
  /\ pc = "c_write"
  /\ IF arg = LOCAL_DIR
     THEN fs' = [fs EXCEPT !.exists = TRUE, !.tree = WriteOver(fs.tree, Scaffold(answers))]
     ELSE fs' = [fs EXCEPT !.others = @ \cup {arg}]
  /\ Exit(0, "created")
  /\ UNCHANGED <<tmpDirs, tmpTree, cmd, arg, tempDir, errors, warnings,
                 answers, pub, edits, rival>>

Create == CPrompt \/ CCheck \/ CWrite

(* ------------------- a second create, run concurrently ----------------- *)
\* another process runs `create` for the same directory while the first is running
\* and the directory is not there; its prompts are answered (lines 80-158)
RivalStart ==
  /\ rival.pc = "none"
  /\ cmd = "create" /\ arg = LOCAL_DIR
  /\ pc \in {"c_prompt", "c_check", "c_write"}
  /\ ~PathExists(LOCAL_DIR)
  /\ \E r \in StartingAnswers : rival' = [pc |-> "c_check", answers |-> r, outcome |-> ""]
  /\ UNCHANGED <<fs, tmpDirs, tmpTree, pc, cmd, arg, tempDir, errors, warnings,
                 exitCode, outcome, answers, pub, edits>>

\* lines 160-166 in that process
RivalCheck ==
  /\ rival.pc = "c_check"
  /\ rival' = IF PathExists(LOCAL_DIR)
              THEN [rival EXCEPT !.pc = "exited", !.outcome = "dir_exists"]
              ELSE [rival EXCEPT !.pc = "c_write"]
  /\ UNCHANGED <<fs, tmpDirs, tmpTree, pc, cmd, arg, tempDir, errors, warnings,
                 exitCode, outcome, answers, pub, edits>>

\* lines 171-315 in that process
RivalWrite ==
  /\ rival.pc = "c_write"
  /\ fs' = [fs EXCEPT !.exists = TRUE, !.tree = WriteOver(fs.tree, Scaffold(rival.answers))]
  /\ rival' = [rival EXCEPT !.pc = "exited", !.outcome = "created"]
  /\ UNCHANGED <<tmpDirs, tmpTree, pc, cmd, arg, tempDir, errors, warnings,
                 exitCode, outcome, answers, pub, edits>>

Rival == RivalStart \/ RivalCheck \/ RivalWrite

(* ---------------------------- publish steps --------------------------- *)
\* lines 612-616
PExists ==
  /\ pc = "p_exists"
  /\ IF PathExists(arg)
     THEN pc' = "p_metadata" /\ UNCHANGED <<exitCode, outcome>>
     ELSE Exit(1, "no_dir")
  /\ UNCHANGED <<fs, tmpDirs, tmpTree, cmd, arg, tempDir, errors, warnings,
                 answers, pub, edits, rival>>

\* lines 618-632
PMetadata ==
  /\ pc = "p_metadata"
  /\ CASE fs.tree.meta.kind = "absent"  -> Exit(1, "no_metadata")
       [] fs.tree.meta.kind = "garbage" -> Exit(1, "bad_metadata")
       [] OTHER -> pc' = "p_git" /\ UNCHANGED <<exitCode, outcome>>
  /\ UNCHANGED <<fs, tmpDirs, tmpTree, cmd, arg, tempDir, errors, warnings,
                 answers, pub, edits, rival>>

\* lines 634-640: checkIsGitRepo
PGit ==
  /\ pc = "p_git"
  /\ \/ /\ pub' = [pub EXCEPT !.isRepo = "yes"]
        /\ pc' = "p_remote"
        /\ UNCHANGED <<exitCode, outcome>>
     \/ /\ pub' = [pub EXCEPT !.isRepo = "no"]
        /\ Exit(1, "not_git")
  /\ UNCHANGED <<fs, tmpDirs, tmpTree, cmd, arg, tempDir, errors, warnings,
                 answers, edits, rival>>

\* lines 642-648: getGitRemote
PRemote ==
  /\ pc = "p_remote"
  /\ \E url \in Remotes :
       /\ pub' = [pub EXCEPT !.remoteAsked = TRUE, !.remote = url]
       /\ IF url = NoRemote
          THEN Exit(1, "no_remote")
          ELSE pc' = "p_parse" /\ UNCHANGED <<exitCode, outcome>>
  /\ UNCHANGED <<fs, tmpDirs, tmpTree, cmd, arg, tempDir, errors, warnings,
                 answers, edits, rival>>

\* lines 650-664: the slug; then the theme info, where metadata.id on null throws
PParse ==
  /\ pc = "p_parse"
  /\ IF ~RemoteMatches(pub.remote)
     THEN Exit(1, "unparsable_remote") /\ UNCHANGED pub
     ELSE /\ pub' = [pub EXCEPT !.repo = ParseRepo(pub.remote)]
          /\ IF fs.tree.meta.kind = "null"
             THEN Exit(1, "crash")
             ELSE pc' = "p_index" /\ UNCHANGED <<exitCode, outcome>>
  /\ UNCHANGED <<fs, tmpDirs, tmpTree, cmd, arg, tempDir, errors, warnings,
                 answers, edits, rival>>

\* lines 666-680: checkThemeRegistered
PIndex ==
  /\ pc = "p_index"
  /\ \E index \in IndexResults :
       /\ pub' = [pub EXCEPT !.indexFetched = TRUE, !.index = index]
       /\ IF IsRegistered(index, pub.repo)
          THEN pc' = "p_lock" /\ UNCHANGED <<exitCode, outcome>>
          ELSE Exit(0, "not_registered")
  /\ UNCHANGED <<fs, tmpDirs, tmpTree, cmd, arg, tempDir, errors, warnings,
                 answers, edits, rival>>

\* what publish ends with once the lockfile is fetched
LockOutcome(lock, repo, version) ==
  IF LockFound(lock, repo)
  THEN VersionOutcome(version, LockEntry(lock, repo).version)
  ELSE "no_lock_entry"

\* lines 703-743: checkLockStatus and the version comparison; main returns, unless
\* metadata.version.split threw
PLock ==
  /\ pc = "p_lock"
  /\ \E lock \in LockResults :
       /\ pub' = [pub EXCEPT !.lockFetched = TRUE, !.lock = lock]
       /\ LET how == LockOutcome(lock, pub.repo, fs.tree.meta.obj["version"])
          IN  Exit(IF how = "crash" THEN 1 ELSE 0, how)
  /\ UNCHANGED <<fs, tmpDirs, tmpTree, cmd, arg, tempDir, errors, warnings,
                 answers, edits, rival>>

Publish == PExists \/ PMetadata \/ PGit \/ PRemote \/ PParse \/ PIndex \/ PLock

Next ==
  \/ UserEdit \/ Return
  \/ StartValidate \/ Validate
  \/ StartCreate \/ Create \/ Rival
  \/ StartPublish \/ Publish

\* the three commands, run one after another on a directory the user edits
Spec == Init /\ [][Next]_vars

\* validate alone, on every directory within MaxEdits edits of a starting one
NextValidate == UserEdit \/ Return \/ StartValidate \/ Validate
SpecValidate == Init /\ [][NextValidate]_vars

\* publish alone
NextPublish == UserEdit \/ Return \/ StartPublish \/ Publish
SpecPublish == Init /\ [][NextPublish]_vars

\* create followed by validate, nothing edited in between, from a working directory
\* in which the theme directory does not exist yet
InitEmpty == Init /\ ~fs.exists
NextRoundTrip == Return \/ StartCreate \/ Create \/ StartValidate \/ Validate
SpecRoundTrip == InitEmpty /\ [][NextRoundTrip]_vars

\* two runs of create on the directory that does not exist yet
NextRace == Return \/ StartCreate \/ Create \/ Rival
SpecRace == InitEmpty /\ [][NextRace]_vars


(* ============================== properties ============================ *)
\* validate has run the metadata block and has not yet printed its report
MetadataChecked ==
  cmd = "validate" /\ pc \in {"v_style", "v_images", "v_shader", "v_cover", "v_report"}

\* validate went through the whole checklist and exited from its last lines
Reported == cmd = "validate" /\ pc = "exited" /\ outcome = "reported"

\* C1: a validate run that reaches the end of the checklist exits 1 exactly when
\* errors is not empty, and 0 otherwise, whatever warnings holds.
C1_ExitCodeIffErrors ==
  Reported => /\ exitCode \in {0, 1}
              /\ exitCode = 1 <=> Len(errors) > 0

C1_Witness == Reported /\ errors = <<>> /\ Len(warnings) > 0 /\ exitCode = 0

\* what create generates, for some combination of accepted answers
Generated(r) == fs.exists /\ fs.tree = Scaffold(r)
ValidatedGenerated(r) == Reported /\ tempDir = 0 /\ Generated(r)

\* C2 (as claimed): validate run on what create generated records no error, and no
\* warning but the tag warning, that one only when no tag was selected.
C2_RoundTripClean ==
  \A r \in Answers :
    ValidatedGenerated(r) =>
      /\ errors = <<>>
      /\ \A i \in 1..Len(warnings) : warnings[i].m = "no_tags" /\ r.tags = <<>>

IsStyleMsg(x) == x.m \in {"rics_error", "rics_failed", "rics_warning", "rics_empty"}
NotStyleMsg(x) == ~IsStyleMsg(x)

C2_ExpectedErrors(r) ==
  (IF ~r.useDescriptionFile /\ r.description = <<>>
   THEN <<M("missing_description")>> ELSE <<>>)
  \o <<Msg("image_not_found", preview_png), M("no_images")>>

\* C2 (amended): validate run on what create generated records, apart from what the
\* stylesheet compiler reports, exactly the error for preview.png not being in
\* images/ and the error for images/ holding no image, preceded by the
\* missing-description error when the description answer was empty and DESCRIPTION.md
\* was not chosen; it records no warning but the compiler's, never the tag warning,
\* and exits 1.
C2_RoundTripErrors ==
  \A r \in Answers :
    ValidatedGenerated(r) =>
      /\ SelectSeq(errors, NotStyleMsg) = C2_ExpectedErrors(r)
      /\ SelectSeq(warnings, NotStyleMsg) = <<>>
      /\ exitCode = 1

C2_Witness ==
  \E r \in Answers :
    /\ ValidatedGenerated(r)
    /\ r.tags = <<>>
    /\ r.useDescriptionFile
    /\ r.hasShaders
    /\ Len(errors) = 2

\* C3 (as claimed): when validate has made a temporary directory, that directory is
\* gone once the process has exited, however the run ended.
C3_TempDirRemoved ==
  (cmd = "validate" /\ pc = "exited" /\ tempDir # 0) => tempDir \notin tmpDirs

\* the (major, minor, patch) of a version string that follows the semver grammar
SemverTriple(s) ==
  LET ps == Split(s)
      digitsOf(x) == SubSeq(x, 1, CHOOSE k \in 0..Len(x) :
                                    /\ \A i \in 1..k : x[i] \in Digit
                                    /\ k < Len(x) => x[k + 1] \notin Digit)
  IN  <<DigitsValue(ps[1]), DigitsValue(ps[2]), DigitsValue(digitsOf(ps[3]))>>

TripleGreater(a, b) ==
  \/ a[1] > b[1]
  \/ a[1] = b[1] /\ a[2] > b[2]
  \/ a[1] = b[1] /\ a[2] = b[2] /\ a[3] > b[3]

PublishFoundLock ==
  /\ cmd = "publish" /\ pc = "exited"
  /\ pub.lockFetched /\ LockFound(pub.lock, pub.repo)

\* C4 (as claimed): when publish finds a lock entry, and the local version is one
\* validate accepts, it ends in exactly one of the three messages: "matches" when
\* the two version strings are equal, else "ready" exactly when the local
\* (major, minor, patch) is greater than the locked one, major first, then minor,
\* then patch, else "not greater".
C4_VersionOutcome ==
  PublishFoundLock =>
    LET version == fs.tree.meta.obj["version"]
        locked == LockEntry(pub.lock, pub.repo).version
    IN  (version.t = "string" /\ SemverRegexTest(version.s)) =>
          outcome = IF version.s = locked THEN "matches"
                    ELSE IF TripleGreater(SemverTriple(version.s), SemverTriple(locked))
                    THEN "ready" ELSE "not_greater"

RequiredFields == {required[i] : i \in 1..Len(required)}

\* C5 (as claimed): for every metadata.json that parses as JSON, validate records the
\* missing-field error of a required field exactly once when the field is absent and
\* not at all when it is present.
C5_OneErrorPerMissingField ==
  (MetadataChecked /\ TargetTree.meta.kind \in {"null", "object"}) =>
    \A f \in RequiredFields :
      CountMsg(errors, Msg("missing_field", <<f>>)) =
        IF TargetTree.meta.kind = "object" /\ TargetTree.meta.obj[f] # Undef
        THEN 0 ELSE 1

\* C5 (amended): for every metadata.json that parses to a JSON value other than
\* null, validate records the missing-field error of a required field exactly once
\* when the field is absent and not at all when it is present.
C5_OneErrorPerMissingFieldOfObject ==
  (MetadataChecked /\ TargetTree.meta.kind = "object") =>
    \A f \in RequiredFields :
      CountMsg(errors, Msg("missing_field", <<f>>)) =
        IF TargetTree.meta.obj[f] # Undef THEN 0 ELSE 1

C5_Witness ==
  /\ MetadataChecked /\ TargetTree.meta.kind = "object"
  /\ TargetTree.meta.obj["id"] = Undef
  /\ TargetTree.meta.obj["hasShaders"] = Bool(FALSE)
  /\ CountMsg(errors, Msg("missing_field", <<"id">>)) = 1
  /\ CountMsg(errors, Msg("missing_field", <<"hasShaders">>)) = 0

\* the errors whose text starts with "metadata.json"
MetadataErrorKinds ==
  {"metadata_missing", "invalid_json", "missing_field", "bad_version", "bad_id",
   "creators_not_array", "images_not_array", "image_not_found"}

\* every required field present and of its type, id and version of their patterns
MetadataValid(tree) ==
  /\ tree.meta.kind = "object"
  /\ LET o == tree.meta.obj
     IN  /\ o["id"].t = "string" /\ IdRegexTest(o["id"].s)
         /\ o["title"].t = "string"
         /\ IsArray(o["creators"])
         /\ o["minVersion"].t = "string"
         /\ o["hasShaders"].t = "boolean"
         /\ o["version"].t = "string" /\ SemverRegexTest(o["version"].s)
         /\ IsArray(o["images"])

\* C6 (as claimed): whenever validate records no metadata.json error, the metadata
\* record is valid: the required fields are there with their types, id is a slug,
\* version is a semver string, creators and images are arrays.
C6_NoMetadataErrorMeansValid ==
  (MetadataChecked /\ \A i \in 1..Len(errors) : errors[i].m \notin MetadataErrorKinds)
    => MetadataValid(TargetTree)

SlugChars == Lower \cup Digit \cup {"-"}

\* C7: for a metadata.json that parses to an object with a string id, validate
\* records the id-format error exactly once when the id holds a character outside
\* a-z, 0-9 and "-" (an uppercase letter, a space, another symbol), and never when
\* the id is one or more of these characters.
C7_IdFormat ==
  (MetadataChecked /\ TargetTree.meta.kind = "object"
     /\ TargetTree.meta.obj["id"].t = "string") =>
    LET id == TargetTree.meta.obj["id"].s
    IN  /\ (\E i \in 1..Len(id) : id[i] \notin SlugChars) => Count(errors, "bad_id") = 1
        /\ (Len(id) > 0 /\ \A i \in 1..Len(id) : id[i] \in SlugChars)
             => Count(errors, "bad_id") = 0

C7_Witness ==
  /\ MetadataChecked /\ TargetTree.meta.kind = "object"
  /\ TargetTree.meta.obj["id"] = Str(BAD_ID)
  /\ Count(errors, "bad_id") = 1

DescriptionErrorCount ==
  Count(errors, "missing_description") + Count(errors, "empty_description_md")

\* C8 (as claimed): for every parsed metadata.json: with no description field and
\* no DESCRIPTION.md that is not blank, exactly one description error; with a
\* description field and no DESCRIPTION.md, or with a DESCRIPTION.md that is not
\* blank, none; with a blank DESCRIPTION.md, an error even when the description
\* field is there.
C8_DescriptionSource ==
  (MetadataChecked /\ TargetTree.meta.kind \in {"null", "object"}) =>
    LET hasField == TargetTree.meta.kind = "object"
                    /\ TargetTree.meta.obj["description"] # Undef
        md == TargetTree.descMd
        blank == md.exists /\ DescMdEmpty(TargetTree)
    IN  /\ (~hasField /\ (~md.exists \/ blank)) => DescriptionErrorCount = 1
        /\ (hasField /\ ~md.exists) => DescriptionErrorCount = 0
        /\ (md.exists /\ ~blank) => DescriptionErrorCount = 0
        /\ blank => DescriptionErrorCount >= 1

\* C8 (amended): for every metadata.json that parses to a value other than null:
\* with a description that is absent or empty (falsy) and no DESCRIPTION.md that is
\* not blank, exactly one description error; with a description that is not empty
\* and no DESCRIPTION.md, or with a DESCRIPTION.md that is not blank, none; with a
\* blank DESCRIPTION.md, exactly one, even when the description is not empty.
C8_DescriptionSourceNonEmpty ==
  (MetadataChecked /\ TargetTree.meta.kind = "object") =>
    LET hasText == Truthy(TargetTree.meta.obj["description"])
        md == TargetTree.descMd
        blank == md.exists /\ DescMdEmpty(TargetTree)
    IN  /\ (~hasText /\ (~md.exists \/ blank)) => DescriptionErrorCount = 1
        /\ (hasText /\ ~md.exists) => DescriptionErrorCount = 0
        /\ (md.exists /\ ~blank) => DescriptionErrorCount = 0
        /\ blank => DescriptionErrorCount = 1

C8_Witness ==
  /\ MetadataChecked /\ TargetTree.meta.kind = "object"
  /\ Truthy(TargetTree.meta.obj["description"])
  /\ TargetTree.descMd.exists /\ DescMdEmpty(TargetTree)
  /\ Count(errors, "empty_description_md") = 1
  /\ Count(errors, "missing_description") = 0

PublishExited == cmd = "publish" /\ pc = "exited"

\* the six conditions publish names before it exits 1
PublishFatal ==
  \/ ~PathExists(arg)
  \/ PathExists(arg) /\ fs.tree.meta.kind = "absent"
  \/ PathExists(arg) /\ fs.tree.meta.kind = "garbage"
  \/ pub.isRepo = "no"
  \/ pub.remoteAsked /\ pub.remote = NoRemote
  \/ pub.remoteAsked /\ pub.remote # NoRemote /\ ~RemoteMatches(pub.remote)

\* C9 (as claimed): publish exits 1 exactly when the directory does not exist,
\* metadata.json is missing, metadata.json is not valid JSON, the directory is not a
\* git repository, there is no origin remote, or the remote is not a GitHub
\* owner/repo; and then it has fetched neither the index nor the lockfile.
C9_PublishExitOne ==
  PublishExited =>
    /\ exitCode = 1 <=> PublishFatal
    /\ PublishFatal => ~pub.indexFetched /\ ~pub.lockFetched

\* C10: a theme is registered exactly when the index was fetched and parsed and
\* holds an entry whose repo is the slug, character for character; a fetch that
\* failed counts as not registered; publish then exits 0 having fetched no lockfile
\* and compared no version, and goes on to the lockfile only when registered.
C10_Registered ==
  (cmd = "publish" /\ pub.indexFetched) =>
    LET registered == pub.index.ok /\ \E e \in pub.index.repos : e = pub.repo
    IN  IF registered
        THEN pc = "p_lock" \/ (pc = "exited" /\ pub.lockFetched)
        ELSE /\ pc = "exited" /\ exitCode = 0 /\ outcome = "not_registered"
             /\ ~pub.lockFetched

C10_Witness ==
  /\ PublishExited /\ pub.indexFetched
  /\ pub.index.ok /\ SLUG_UPPER \in pub.index.repos /\ pub.repo = SLUG
  /\ exitCode = 0 /\ ~pub.lockFetched

\* publish has asked git for the remote and is past parsing it
RemoteParsed == cmd = "publish" /\ pub.remoteAsked /\ pc # "p_parse"

\* no "github.com:" or "github.com/" with something after it
NoSlugIn(remote) ==
  \A i \in 1..Len(remote) :
    ~ /\ i + 11 <= Len(remote)
      /\ SubSeq(remote, i, i + 9) = GITHUB_COM
      /\ remote[i + 10] \in {":", "/"}

\* C11: for every owner/repo (of names GitHub allows, which do not end in .git) the
\* remotes https://github.com/owner/repo, the same with .git, git@github.com:owner/repo
\* and the same with .git all parse to the slug owner/repo; a remote that holds no
\* slug makes publish exit 1 before anything is fetched.
C11_RemoteForms ==
  RemoteParsed =>
    /\ \A slug \in Slugs, k \in 1..4 :
         pub.remote = RemoteForm(k, slug) => pub.repo = slug
    /\ (pub.remote # NoRemote /\ NoSlugIn(pub.remote)) =>
         pc = "exited" /\ exitCode = 1 /\ ~pub.indexFetched

C11_Witness ==
  /\ RemoteParsed /\ pc = "p_index"
  /\ pub.remote = RemoteForm(4, SLUG_DOTTED)
  /\ pub.repo = SLUG_DOTTED

\* validate is past the images block
ImagesChecked == cmd = "validate" /\ pc \in {"v_shader", "v_cover", "v_report"}

UpperCaseOf(c) ==
  IF \E j \in 1..26 : c = LowerSeq[j]
  THEN UpperSeq[CHOOSE j \in 1..26 : c = LowerSeq[j]] ELSE c

\* .png, .jpg, .jpeg, .gif and .webp written with any mix of upper and lower case
ImageExtensionsAnyCase ==
  UNION { { [i \in 1..Len(e) |-> IF i \in U THEN UpperCaseOf(e[i]) ELSE e[i]] :
              U \in SUBSET (1..Len(e)) } :
          e \in {<<".","p","n","g">>, <<".","j","p","g">>, <<".","j","p","e","g">>,
                  <<".","g","i","f">>, <<".","w","e","b","p">>} }

\* the name ends in one of them
HasImageExtension(name) ==
  \E k \in {4, 5} :
    Len(name) >= k /\ SubSeq(name, Len(name) - k + 1, Len(name)) \in ImageExtensionsAnyCase

\* the image files of the theme that decode to a positive width and height
DecodedImages ==
  IF TargetTree.images.kind = "dir"
  THEN {file \in TargetTree.images.files :
          /\ HasImageExtension(file.name)
          /\ file.img.r = "dims" /\ file.img.w > 0 /\ file.img.h > 0}
  ELSE {}

ImageErrorKinds == {"image_unreadable", "image_corrupt", "image_enoent", "image_other"}

\* what validate recorded about the image of that name
AspectWarningsOf(name) == {i \in 1..Len(warnings) : warnings[i].m = "aspect" /\ warnings[i].f = name}
ImageErrorsOf(name) == {i \in 1..Len(errors) : errors[i].m \in ImageErrorKinds /\ errors[i].f = name}

\* n hundredths is w / h rounded to two decimals: no hundredth is nearer
NearestHundredth(n, w, h) == 200 * w - 2 * n * h <= h /\ 2 * n * h - 200 * w <= h

ImagesListed ==
  /\ MetadataChecked /\ TargetTree.meta.kind = "object"
  /\ TargetTree.meta.obj["images"].t = "array"

\* a file of that name is in the images directory
UnderImages(name) ==
  /\ TargetTree.images.kind = "dir"
  /\ \E file \in TargetTree.images.files : file.name = name

\* C13: when metadata.json parses and its images is a list, every listed file name
\* that is not in images/ gets one error naming it, and every listed name that is
\* there gets none; so it is too when images/ itself is missing.
C13_CrossReference ==
  ImagesListed =>
    LET listed == TargetTree.meta.obj["images"].l
    IN  \A k \in 1..Len(listed) :
          CountMsg(errors, Msg("image_not_found", listed[k])) =
            IF UnderImages(listed[k]) THEN 0
            ELSE Cardinality({j \in 1..Len(listed) : listed[j] = listed[k]})

C13_Witness ==
  /\ ImagesListed
  /\ TargetTree.images.kind = "absent"
  /\ TargetTree.meta.obj["images"].l = <<preview_png>>
  /\ CountMsg(errors, Msg("image_not_found", preview_png)) = 1

\* validate is past the shader block
ShaderChecked == cmd = "validate" /\ pc \in {"v_cover", "v_report"}

\* C14 (as claimed): the error "shader.json is missing but hasShaders is true" is
\* recorded exactly when metadata.json parses, its hasShaders is true and there is
\* no shader.json.
C14_ShaderMissing ==
  ShaderChecked =>
    Count(errors, "shader_missing") =
      IF /\ TargetTree.meta.kind = "object"
         /\ TargetTree.meta.obj["hasShaders"] = Bool(TRUE)
         /\ ~TargetTree.shader
      THEN 1 ELSE 0

\* C14 (amended): the error is recorded, once, exactly when metadata.json parses to
\* an object, its hasShaders is truthy (true, but also 1 or "yes") and there is no
\* shader.json; with hasShaders false, 0, null or absent a missing shader.json is
\* never an error.
C14_ShaderMissingTruthy ==
  ShaderChecked =>
    Count(errors, "shader_missing") =
      IF /\ TargetTree.meta.kind = "object"
         /\ LET v == TargetTree.meta.obj["hasShaders"]
            IN  ~ \/ v \in {Undef, Null, Bool(FALSE), Num(0), Str(<<>>)}
         /\ ~TargetTree.shader
      THEN 1 ELSE 0

C14_Witness ==
  /\ ShaderChecked /\ TargetTree.meta.kind = "object"
  /\ TargetTree.meta.obj["hasShaders"] = Bool(TRUE)
  /\ ~TargetTree.shader
  /\ Count(errors, "shader_missing") = 1

\* validate is past the style block
StyleChecked ==
  cmd = "validate" /\ pc \in {"v_images", "v_shader", "v_cover", "v_report"}

StyleErrorKinds == {"style_missing", "rics_failed", "rics_error"}
StyleWarningKinds == {"rics_empty", "rics_warning", "css_empty"}
StyleErrorsRecorded == SelectSeq(errors, LAMBDA x : x.m \in StyleErrorKinds)
StyleWarningsRecorded == SelectSeq(warnings, LAMBDA x : x.m \in StyleWarningKinds)
Blank(text) == \A i \in 1..Len(text) : text[i] = " "

C16_ExistingDirUntouched ==
  [][(cmd = "create" /\ PathExists(arg)) =>
       /\ fs' = fs /\ tmpDirs' = tmpDirs
       /\ pc = "c_check" => (pc' = "exited" /\ exitCode' = 1)]_vars

C16_Witness ==
  /\ cmd = "create" /\ pc = "exited" /\ outcome = "dir_exists"
  /\ exitCode = 1 /\ arg = LOCAL_DIR /\ fs.exists

Created == cmd = "create" /\ pc = "exited" /\ outcome = "created" /\ arg = LOCAL_DIR

\* C17: after a successful create, metadata.json has a description exactly when
\* DESCRIPTION.md was not chosen, DESCRIPTION.md exists exactly when it was chosen,
\* shader.json exists exactly when shaders were enabled, which is what hasShaders
\* in metadata.json says; metadata.json, style.rics, README.md and images/.gitkeep
\* are always there.
C17_GeneratedFiles ==
  Created =>
    LET tree == fs.tree
    IN  /\ exitCode = 0 /\ fs.exists
        /\ tree.meta.kind = "object"
        /\ (tree.meta.obj["description"] # Undef) <=> ~answers.useDescriptionFile
        /\ tree.descMd.exists <=> answers.useDescriptionFile
        /\ tree.shader <=> answers.hasShaders
        /\ tree.meta.obj["hasShaders"] = Bool(answers.hasShaders)
        /\ tree.rics.exists /\ tree.readme
        /\ tree.images.kind = "dir"
        /\ \E file \in tree.images.files : file.name = gitkeep

C17_Witness ==
  /\ Created
  /\ answers.useDescriptionFile /\ answers.hasShaders
  /\ fs.tree.descMd.exists /\ fs.tree.shader
  /\ fs.tree.meta.obj["description"] = Undef

\* C18 (as claimed): `bump patch|minor|major [dir]` increments the version in the
\* metadata.json of the theme and does not scaffold a new theme. main knows no bump
\* command: the word is taken as the name of the theme to create.
C18_BumpDoesNotScaffold ==
  (cmd = "create" /\ arg = BUMP /\ pc = "exited") =>
    outcome # "created" /\ BUMP \notin fs.others

\* validate is in one of the steps of the checklist, or at the report
InChecklist ==
  pc \in {"v_metadata", "v_style", "v_images", "v_shader", "v_cover", "v_report"}

\* the arguments validate takes for a GitHub repository URL
GithubUrlArgs == {a \in ValidateArgs : GithubUrlTest(a)}

\* C19: in validate a clone that fails and a target directory that does not exist
\* end the process with code 1 at once: no step of the checklist has run, nothing
\* was recorded and nothing is reported; an argument that is not a GitHub URL is
\* never cloned, it is the path of the directory that is read.
C19_FatalBeforeChecklist ==
  cmd = "validate" =>
    LET url == arg \in GithubUrlArgs
    IN  /\ outcome = "clone_failed" =>
             /\ url /\ pc = "exited" /\ exitCode = 1
             /\ errors = <<>> /\ warnings = <<>>
        /\ (~url /\ ~PathExists(arg)) =>
             /\ ~InChecklist
             /\ pc = "exited" => (exitCode = 1 /\ errors = <<>> /\ warnings = <<>>)
        /\ ~url =>
             /\ tempDir = 0 /\ tmpTree = EmptyTree
             /\ InChecklist => (PathExists(arg) /\ TargetTree = fs.tree)

C19_Witness ==
  /\ cmd = "validate" /\ arg = GITLAB_URL
  /\ pc = "exited" /\ exitCode = 1 /\ outcome = "no_dir"
  /\ tempDir = 0 /\ errors = <<>>

Unreadable(img) == img.r # "dims" \/ img.w = 0 \/ img.h = 0

\* C20: a file of images/ with an image extension whose dimensions cannot be read
\* gets exactly one error and no warning, whichever of the messages it is; a file
\* with an image extension gets at most one entry in errors and warnings together;
\* a file without one gets nothing and does not count as an image: with no file of
\* an image extension the error asking for at least one image is recorded.
C20_ImageFiles ==
  (ImagesChecked /\ TargetTree.images.kind = "dir") =>
    LET files == TargetTree.images.files
    IN  /\ \A file \in files :
             LET es == Cardinality(ImageErrorsOf(file.name))
                 ws == Cardinality(AspectWarningsOf(file.name))
             IN  IF HasImageExtension(file.name)
                 THEN /\ es + ws <= 1
                      /\ Unreadable(file.img) => (es = 1 /\ ws = 0)
                 ELSE es = 0 /\ ws = 0
        /\ Count(errors, "no_images") =
             IF \E file \in files : HasImageExtension(file.name) THEN 0 ELSE 1

C20_Witness ==
  /\ ImagesChecked /\ TargetTree.images.kind = "dir"
  /\ \E file \in TargetTree.images.files :
       /\ HasImageExtension(file.name) /\ file.img = ImgThrows("other")
       /\ \E i \in 1..Len(errors) : errors[i] = Msg("image_other", file.name)

\* validate is past the metadata block, or has ended after it
PastMetadata ==
  /\ cmd = "validate"
  /\ \/ pc \in {"v_style", "v_images", "v_shader", "v_cover", "v_report"}
     \/ pc = "exited" /\ outcome \in {"reported", "crash"}

\* the entries that come from the content of metadata.json
MetadataEntryKinds ==
  {"metadata_missing", "missing_field", "bad_version", "missing_description",
   "empty_description_md", "bad_id", "creators_not_array", "images_not_array",
   "image_not_found", "shader_missing", "no_tags", "no_cover"}

ImagesErrorKinds == ImageErrorKinds \cup {"images_dir_missing", "no_images"}
ImagesErrorsRecorded == SelectSeq(errors, LAMBDA x : x.m \in ImagesErrorKinds)
AspectWarningsRecorded == SelectSeq(warnings, LAMBDA x : x.m = "aspect")

\* C21: in validate a metadata.json that is there and is not JSON gives exactly one
\* error, the first of the list, carrying the message of the parse; nothing is
\* recorded about required fields, id, version, description, cross-references,
\* shader, tags or cover image; the style and the images blocks still record what
\* they find, and the report holds that one error and theirs, with exit code 1.
C21_MalformedJson ==
  (PastMetadata /\ TargetTree.meta.kind = "garbage") =>
    /\ errors # <<>> /\ errors[1] = Msg("invalid_json", <<"SyntaxError">>)
    /\ Count(errors, "invalid_json") = 1
    /\ \A i \in 1..Len(errors) : errors[i].m \notin MetadataEntryKinds
    /\ \A i \in 1..Len(warnings) : warnings[i].m \notin MetadataEntryKinds
    /\ StyleChecked =>
         \E res \in CompileResults :
           /\ StyleErrorsRecorded = StyleErrors(TargetTree, res)
           /\ StyleWarningsRecorded = StyleWarnings(TargetTree, res)
    /\ ImagesChecked =>
         /\ ImagesErrorsRecorded = ImagesErrors(TargetTree)
         /\ AspectWarningsRecorded = ImagesWarnings(TargetTree)
    /\ Reported =>
         /\ exitCode = 1
         /\ Len(errors) = 1 + Len(StyleErrorsRecorded) + Len(ImagesErrorsRecorded)
         /\ Len(warnings) = Len(StyleWarningsRecorded) + Len(AspectWarningsRecorded)

C21_Witness ==
  /\ Reported /\ TargetTree.meta.kind = "garbage"
  /\ errors = <<Msg("invalid_json", <<"SyntaxError">>), M("rics_error"), M("no_images")>>
  /\ exitCode = 1

\* both runs of create have ended
BothEnded ==
  /\ cmd = "create" /\ arg = LOCAL_DIR /\ pc = "exited"
  /\ rival.pc = "exited"

\* C22: create looks at the target directory once and holds no lock: a run that
\* found the directory absent writes its files and ends as created whatever
\* another run has made of the directory since then, so two runs on the same
\* absent directory can both pass the check and both write; the directory then
\* holds the metadata.json of the run that wrote last, and every file either wrote.
C22_CheckedOnce ==
  [][/\ (cmd = "create" /\ pc = "c_write" /\ pc' # pc) =>
          /\ pc' = "exited" /\ outcome' = "created" /\ exitCode' = 0
          /\ PathExists(arg)'
          /\ arg = LOCAL_DIR => fs'.tree.meta = Scaffold(answers).meta
     /\ (rival.pc = "c_write" /\ rival'.pc # rival.pc) =>
          /\ rival'.pc = "exited" /\ rival'.outcome = "created"
          /\ fs'.exists /\ fs'.tree.meta = Scaffold(rival.answers).meta
     /\ (fs.exists /\ fs'.exists) =>
          /\ fs.tree.shader => fs'.tree.shader
          /\ fs.tree.descMd.exists => fs'.tree.descMd.exists]_vars

C22_Witness ==
  /\ BothEnded
  /\ outcome = "created" /\ rival.outcome = "created"
  /\ fs.exists
  /\ fs.tree.meta = Scaffold(answers).meta
  /\ fs.tree.shader /\ ~answers.hasShaders /\ rival.answers.hasShaders

\* validate is past the cover block, and the directory it read is still there
CoverChecked ==
  /\ cmd = "validate"
  /\ \/ pc = "v_report"
     \/ Reported /\ (tempDir = 0 \/ tempDir \in tmpDirs)

\* the value is an array with at least one element
NonEmptyArray(v) == v.t = "array" /\ v.l # <<>>
\* the value has a length above 0: such an array, or a string of at least one character
PositiveLength(v) == NonEmptyArray(v) \/ (v.t = "string" /\ v.s # <<>>)

====
